---------------------------- MODULE Spec2Model ----------------------------
(***************************************************************************)
(* A model of src/src/openslide-decode-jpeg.c: the libjpeg error bridge    *)
(* (my_error_exit, my_output_message, my_emit_message), the decompress     *)
(* session lifecycle, the dimension probe (jpeg_get_dimensions), the pixel *)
(* decoder (jpeg_decode), their file and buffer entry points, and the      *)
(* JPEG associated-image registration.                                     *)
(*                                                                         *)
(* Every call runs on a thread t.  th[t] is the thread's call frame: the   *)
(* arguments, the caller's outputs, the C locals, the heap objects the     *)
(* call owns (decompress struct, error manager, staging rows), and a log   *)
(* of the events of the call in program order.  libjpeg, GLib and the file *)
(* layer are the environment: what libjpeg does on a source is a function  *)
(* of the source's stream record.                                          *)
(***************************************************************************)
EXTENDS Integers, Sequences, FiniteSets, TLC

VARIABLES th, associated_images, img_heap, pk_in, pk_out

vars == <<th, associated_images, img_heap, pk_in, pk_out>>

---------------------------------------------------------------------------
(* Bounds of the model *)

\* largest image width and height of a modelled stream, and largest
\* expected width and height a caller passes
MaxW == 2
MaxH == 2
\* largest recommended scanline batch height of a modelled stream
MaxRec == 2
\* number of associated-image entries allocated in one run
MaxImgs == 3

(* Program constants *)

\* jpeglib.h: MAX_SAMP_FACTOR, the length of the staging array
MAX_SAMP_FACTOR == 4
\* jpeglib.h: return codes of jpeg_read_header
JPEG_SUSPENDED == 0
JPEG_HEADER_OK == 1
JPEG_HEADER_TABLES_ONLY == 2
\* a 32-bit value as its two 16-bit halves <<high, low>>
\* the alpha byte of a packed pixel, 0xFF000000
ALPHA_OPAQUE == <<255 * 256, 0>>
\* the value of the caller's width/height variables and of a destination
\* element before the call (never a value the code writes)
UNWRITTEN == 0 - 1

Min(a, b) == IF a < b THEN a ELSE b

---------------------------------------------------------------------------
(* Structured errors (GError) *)

\* an empty GError slot; over counts g_set_error calls on a slot that
\* already held an error (GLib warns and keeps the first)
NoErr == [set |-> FALSE, msg |-> "", args |-> <<>>, prefix |-> "", over |-> 0]

MkErr(msg, args) ==
  [set |-> TRUE, msg |-> msg, args |-> args, prefix |-> "", over |-> 0]

\* g_set_error(&slot, ...)
g_set_error(slot, e) ==
  IF slot.set THEN [slot EXCEPT !.over = @ + 1] ELSE e

\* g_propagate_error(dest, src): moves src into the slot dest
g_propagate_error(slot, e) ==
  IF slot.set THEN [slot EXCEPT !.over = @ + 1] ELSE e

\* g_prefix_error(err, "Can't read %s associated image: ", name)
g_prefix_error(slot, name) ==
  IF slot.set THEN [slot EXCEPT !.prefix = name] ELSE slot

---------------------------------------------------------------------------
(* The sources: what libjpeg does on a stream *)

\* the libjpeg calls of a probe or decode during which a stream can make
\* the codec raise a message; scan0 is the first jpeg_read_scanlines call,
\* scan1 a jpeg_read_scanlines call after at least one row was produced
CodecSteps == {"create", "src", "header", "calc", "start", "scan0", "scan1"}

\* emit_message levels: -1 warning, 0 advisory, 1 trace
Levels == {-1, 0, 1}

\* a stream: its image size, the batch height libjpeg recommends for it,
\* the call (at) in which libjpeg raises a message, whether the message is
\* a fatal error (ERREXIT) or an emit_message of the given level, and what
\* jpeg_read_header returns
Streams ==
  { [image_width |-> w, image_height |-> h, rec |-> r,
     at |-> "none", fatal |-> FALSE, level |-> 0, header |-> hr] :
       w \in 1..MaxW, h \in 1..MaxH, r \in 1..Min(MaxRec, MAX_SAMP_FACTOR),
       hr \in {JPEG_SUSPENDED, JPEG_HEADER_OK, JPEG_HEADER_TABLES_ONLY} }
  \cup
  { [image_width |-> w, image_height |-> h, rec |-> r,
     at |-> a, fatal |-> TRUE, level |-> 0, header |-> JPEG_HEADER_OK] :
       w \in 1..MaxW, h \in 1..MaxH, r \in 1..Min(MaxRec, MAX_SAMP_FACTOR),
       a \in CodecSteps }
  \cup
  { [image_width |-> w, image_height |-> h, rec |-> r,
     at |-> a, fatal |-> FALSE, level |-> l, header |-> JPEG_HEADER_OK] :
       w \in 1..MaxW, h \in 1..MaxH, r \in 1..Min(MaxRec, MAX_SAMP_FACTOR),
       a \in CodecSteps, l \in Levels }
  \cup
  \* streams whose frame header declares no columns or no rows
  { [image_width |-> w, image_height |-> h, rec |-> r,
     at |-> "none", fatal |-> FALSE, level |-> 0, header |-> JPEG_HEADER_OK] :
       w \in 0..MaxW, h \in 0..MaxH, r \in 1..Min(MaxRec, MAX_SAMP_FACTOR) }

\* a valid baseline stream of the given size
GoodStream(w, h, r) ==
  [image_width |-> w, image_height |-> h, rec |-> r,
   at |-> "none", fatal |-> FALSE, level |-> 0, header |-> JPEG_HEADER_OK]

\* the 8-bit sample libjpeg produces for component c of column i of
\* scanline k: pixel (0,0) of an RGB decode is pure red
Sample(k, i, c, ncomp) ==
  IF ncomp = 1 THEN (76 + 16 * k + i) % 256
  ELSE IF c = 0 THEN (255 - 16 * k - i) % 256
  ELSE IF c = 1 THEN (16 * k) % 256
  ELSE i % 256

\* jpeg_read_header on a frame header of zero width or zero height: libjpeg
\* raises the fatal error JERR_EMPTY_IMAGE
EmptyImage(stream) == stream.image_width = 0 \/ stream.image_height = 0

\* the message text libjpeg's format_message produces in a call
CodecMsg(step) ==
  CASE step = "create" -> "JERR_BAD_LIB_VERSION"
    [] step = "src"    -> "JERR_INPUT_EMPTY"
    [] step = "header" -> "JERR_NO_SOI"
    [] step = "calc"   -> "JERR_BAD_STATE"
    [] step = "start"  -> "JERR_CONVERSION_NOTIMPL"
    [] OTHER           -> "JWRN_HIT_MARKER"

\* the files of the model: which can be opened, which can be positioned,
\* and the stream found at an offset
Filenames == {"slide.jpg", "cmyk.jpg", "trunc.jpg", "missing.jpg"}
Offsets == {0, 4096, 8192}

FileOpens(filename) == filename # "missing.jpg"
FileSeeks(filename, offset) == ~(filename = "trunc.jpg" /\ offset = 8192)

FileStream(filename, offset) ==
  CASE filename = "slide.jpg" /\ offset = 0 -> GoodStream(MaxW, MaxH, 1)
    [] filename = "slide.jpg" /\ offset = 4096 ->
         [GoodStream(1, MaxH, Min(MaxRec, MAX_SAMP_FACTOR))
            EXCEPT !.at = "scan1", !.level = -1]
    [] filename = "slide.jpg" /\ offset = 8192 ->
         [GoodStream(1, 1, 1) EXCEPT !.at = "scan0", !.fatal = TRUE]
    [] filename = "cmyk.jpg" /\ offset = 0 ->
         [GoodStream(MaxW, 1, 1) EXCEPT !.at = "start", !.fatal = TRUE]
    [] filename = "cmyk.jpg" /\ offset = 4096 ->
         [GoodStream(1, 1, 1) EXCEPT !.at = "header", !.level = -1]
    [] filename = "cmyk.jpg" /\ offset = 8192 ->
         [GoodStream(1, 1, 1) EXCEPT !.at = "calc", !.level = -1]
    [] filename = "trunc.jpg" /\ offset = 0 ->
         [GoodStream(1, 1, 1) EXCEPT !.header = JPEG_SUSPENDED]
    [] filename = "trunc.jpg" /\ offset = 4096 ->
         [GoodStream(1, 1, 1) EXCEPT !.at = "create", !.fatal = TRUE]
    [] OTHER -> GoodStream(1, 1, 1)

---------------------------------------------------------------------------
(* The call frame of a thread *)

\* struct jpeg_decompress_struct, as g_slice_new0 returns it
NewCinfo ==
  [mem |-> "live", err |-> FALSE, created |-> FALSE, src |-> FALSE,
   global_state |-> "zero", out_color_space |-> "default",
   output_width |-> 0, output_height |-> 0, output_components |-> 0,
   output_scanline |-> 0, rec_outbuf_height |-> 0]

NoCinfo == [NewCinfo EXCEPT !.mem = "none"]

\* struct openslide_jpeg_error_mgr; env is TRUE when it points to the
\* jmp_buf of the call
NoJerr == [mem |-> "none", error_exit |-> "none", output_message |-> "none",
           emit_message |-> "none", env |-> FALSE, err |-> NoErr]

\* a thread between two calls
Idle ==
  [pc |-> "idle", op |-> "none",
   \* arguments
   name |-> "", filename |-> "", offset |-> 0, usef |-> FALSE,
   stream |-> GoodStream(1, 1, 1),
   w |-> 0, h |-> 0, grayscale |-> FALSE,
   \* what the caller sees: its GError slot, the returned value, its
   \* width and height variables, its destination buffer and how many
   \* times each element of it was written
   err |-> NoErr, ret |-> FALSE, success |-> FALSE,
   w_out |-> UNWRITTEN, h_out |-> UNWRITTEN,
   dest |-> <<>>, wcount |-> <<>>, oob |-> 0,
   \* locals of jpeg_get_dimensions and jpeg_decode
   result |-> FALSE, env |-> "unset", header_result |-> 0,
   row_size |-> 0, buffer |-> <<>>, rows_read |-> 0, cur_buffer |-> 0,
   dpos |-> 0,
   \* heap objects of the call
   cinfo |-> NoCinfo, jerr |-> NoJerr,
   rows |-> [i \in 1..MAX_SAMP_FACTOR |-> "none"],
   stage |-> [i \in 1..MAX_SAMP_FACTOR |-> UNWRITTEN],
   buffer_mem |-> "none", badfree |-> 0,
   file |-> "none",
   \* the probe this decode follows on the same source, if any
   probed |-> FALSE, probed_w |-> 0, probed_h |-> 0,
   \* the call follows a call of the thread that failed through the bridge
   after_failure |-> FALSE,
   \* the events of the call, in program order
   log |-> <<>>]

Log(s, e) == [s EXCEPT !.log = Append(@, e)]

\* number of occurrences of event e in a log
RECURSIVE Count(_, _)
Count(l, e) ==
  IF l = <<>> THEN 0
  ELSE (IF Head(l) = e THEN 1 ELSE 0) + Count(Tail(l), e)

\* position of the first occurrence of event e in a log, 0 if none
RECURSIVE IndexFrom(_, _, _)
IndexFrom(l, e, i) ==
  IF i > Len(l) THEN 0 ELSE IF l[i] = e THEN i ELSE IndexFrom(l, e, i + 1)
First(l, e) == IndexFrom(l, e, 1)

---------------------------------------------------------------------------
(* ErrorBridge: my_error_exit, my_output_message, my_emit_message *)

\* longjmp(*(jerr->env), 1): control re-enters the frame at the point
\* setjmp recorded.  A jump through a jmp_buf that was never set, or that
\* holds what an earlier frame left in it, is undefined.
longjmp(s) ==
  IF s.jerr.env /\ s.env \notin {"unset", "stale"}
  THEN [Log(s, "longjmp") EXCEPT !.pc = s.env]
  ELSE [Log(s, "longjmp") EXCEPT !.pc = "undefined"]

\* my_output_message: formats the codec's message and stores it as the
\* pending error of the bridge
my_output_message(s, text) ==
  [Log(s, "capture") EXCEPT !.jerr.err = g_set_error(@, MkErr(text, <<>>))]

\* my_error_exit without the output_message call of line 52: the escape
\* is taken with no error captured
my_error_exit_not_capturing(s, text) == longjmp(s)

\* my_error_exit: capture, then escape
my_error_exit(s, text) == longjmp(my_output_message(s, text))

\* my_emit_message with the test msg_level < -1: warnings pass
emit_message_passing_warnings(msg_level) == msg_level < 0 - 1

\* my_emit_message: TRUE when the message is handed to error_exit
my_emit_message(msg_level) == msg_level < 0

\* the codec raises a message during the libjpeg call `step`
Emits(s, step) == s.stream.at = step

\* the state after a libjpeg call: c is the frame when the call was made,
\* step the call.  If the stream makes the codec raise a fatal error (or
\* the call finds the session in a bad state), or a message that
\* emit_message escalates, control leaves through the installed
\* error_exit; otherwise the call returns and the state is `normal`.
\* libjpeg's own error_exit ends the process.
CodecReturn(c, step, bad_state, normal) ==
  IF bad_state \/ (Emits(c, step) /\ c.stream.fatal)
  THEN IF c.jerr.error_exit = "my_error_exit"
       THEN my_error_exit(Log(c, "fatal"),
                          IF ~bad_state THEN CodecMsg(step)
                          ELSE IF step = "header" THEN "JERR_EMPTY_IMAGE"
                          ELSE "JERR_BAD_STATE")
       ELSE [Log(c, "exit") EXCEPT !.pc = "aborted"]
  ELSE IF Emits(c, step)
  THEN IF c.jerr.emit_message # "my_emit_message"
       THEN normal
       ELSE IF my_emit_message(c.stream.level)
            THEN my_error_exit(Log(c, "warning"), CodecMsg(step))
            ELSE [normal EXCEPT !.log = Append(@, "message")]
  ELSE normal

---------------------------------------------------------------------------
(* DecodeSession lifecycle *)

\* _openslide_jpeg_create_decompress
_openslide_jpeg_create_decompress(s) ==
  [Log(s, "create") EXCEPT !.cinfo = NewCinfo]

\* _openslide_jpeg_init_decompress up to the jpeg_create_decompress call:
\* allocate the error manager, install the three handlers and the jump
\* target, attach it to the session
InstallBridge(s) ==
  [Log(s, "install") EXCEPT
     !.jerr = [mem |-> "live", error_exit |-> "my_error_exit",
               output_message |-> "my_output_message",
               emit_message |-> "my_emit_message",
               env |-> TRUE, err |-> NoErr],
     !.cinfo.err = TRUE]

\* _openslide_jpeg_init_decompress calling jpeg_create_decompress first
\* and attaching the error manager after it
init_decompress_create_first(s, next) ==
  LET c == Log(s, "jpeg_create_decompress") IN
  CodecReturn(c, "create", FALSE,
              [InstallBridge([c EXCEPT !.cinfo = [NewCinfo EXCEPT
                                                    !.created = TRUE,
                                                    !.global_state = "start"]])
                 EXCEPT !.pc = next])

\* _openslide_jpeg_init_decompress: install the bridge, then
\* jpeg_create_decompress, which keeps cinfo->err and zeroes the rest
_openslide_jpeg_init_decompress(s, next) ==
  LET c == Log(InstallBridge(s), "jpeg_create_decompress") IN
  CodecReturn(c, "create", FALSE,
              [c EXCEPT !.pc = next,
                        !.cinfo = [NewCinfo EXCEPT !.err = c.cinfo.err,
                                                   !.created = TRUE,
                                                   !.global_state = "start"]])

\* _openslide_jpeg_propagate_error freeing the pending error instead of
\* handing it to the caller
propagate_error_dropping(s) ==
  IF s.jerr.error_exit # "my_error_exit"
  THEN [Log(s, "assert") EXCEPT !.pc = "aborted"]
  ELSE [Log(s, "propagate") EXCEPT !.jerr.err = NoErr]

\* _openslide_jpeg_propagate_error without line 102 (jerr->err = NULL)
propagate_error_keeping_pending(s) ==
  IF s.jerr.error_exit # "my_error_exit"
  THEN [Log(s, "assert") EXCEPT !.pc = "aborted"]
  ELSE [Log(s, "propagate") EXCEPT !.err = g_propagate_error(@, s.jerr.err)]

\* _openslide_jpeg_propagate_error: move the pending error to the caller
_openslide_jpeg_propagate_error(s) ==
  IF s.jerr.error_exit # "my_error_exit"
  THEN [Log(s, "assert") EXCEPT !.pc = "aborted"]
  ELSE [Log(s, "propagate") EXCEPT
          !.err = g_propagate_error(@, s.jerr.err),
          !.jerr.err = NoErr]

\* _openslide_jpeg_destroy_decompress without line 114 (the session is
\* not freed)
destroy_decompress_keeping_session(s) ==
  LET d == [Log(s, "jpeg_destroy_decompress") EXCEPT !.cinfo.created = FALSE] IN
  IF d.cinfo.err /\ (d.jerr.error_exit # "my_error_exit" \/ d.jerr.err.set)
  THEN [Log(d, "assert") EXCEPT !.pc = "aborted"]
  ELSE [d EXCEPT !.jerr.mem = IF d.cinfo.err THEN "freed" ELSE @]

\* _openslide_jpeg_destroy_decompress: jpeg_destroy_decompress, then free
\* the bridge (asserting it holds no pending error), then the session
_openslide_jpeg_destroy_decompress(s) ==
  LET d == [Log(s, "jpeg_destroy_decompress") EXCEPT
              !.cinfo.created = FALSE,
              !.badfree = @ + (IF s.cinfo.mem = "live" THEN 0 ELSE 1)] IN
  IF d.cinfo.err /\ (d.jerr.error_exit # "my_error_exit" \/ d.jerr.err.set)
  THEN [Log(d, "assert") EXCEPT !.pc = "aborted"]
  ELSE [Log(d, "destroy") EXCEPT
          !.jerr.mem = IF d.cinfo.err THEN "freed" ELSE @,
          !.cinfo.mem = "freed"]

---------------------------------------------------------------------------
(* DimensionProbe: jpeg_get_dimensions *)

Set(t, r) == th' = [th EXCEPT ![t] = r]

Shared == <<associated_images, img_heap, pk_in, pk_out>>

\* jpeg_get_dimensions creating the session inside the setjmp branch: the
\* recovery point is established first
gd_create_after_setjmp(t) ==
  /\ th[t].pc = "gd_create"
  /\ Set(t, [_openslide_jpeg_create_decompress(Log(th[t], "setjmp")) EXCEPT
               !.env = "gd_recover", !.pc = "gd_init"])
  /\ UNCHANGED Shared

\* line 124: cinfo = _openslide_jpeg_create_decompress()
gd_create(t) ==
  /\ th[t].pc = "gd_create"
  /\ Set(t, [_openslide_jpeg_create_decompress(th[t]) EXCEPT !.pc = "gd_setjmp"])
  /\ UNCHANGED Shared

\* line 126: setjmp(env) == 0, the recovery point is the else branch
gd_setjmp(t) ==
  /\ th[t].pc = "gd_setjmp"
  /\ Set(t, [Log(th[t], "setjmp") EXCEPT !.env = "gd_recover", !.pc = "gd_init"])
  /\ UNCHANGED Shared

\* line 127
gd_init(t) ==
  /\ th[t].pc = "gd_init"
  /\ Set(t, _openslide_jpeg_init_decompress(th[t], "gd_src"))
  /\ UNCHANGED Shared

\* _openslide_jpeg_stdio_src / _openslide_jpeg_mem_src
BindSource(s, next) ==
  LET c == Log(s, IF s.usef THEN "stdio_src" ELSE "mem_src") IN
  CodecReturn(c, "src", FALSE, [c EXCEPT !.cinfo.src = TRUE, !.pc = next])

\* lines 129-133
gd_src(t) ==
  /\ th[t].pc = "gd_src"
  /\ Set(t, BindSource(th[t], "gd_header"))
  /\ UNCHANGED Shared

\* the header result is neither JPEG_HEADER_OK nor JPEG_HEADER_TABLES_ONLY
HeaderUnreadable(header_result) ==
  header_result # JPEG_HEADER_OK /\ header_result # JPEG_HEADER_TABLES_ONLY

\* jpeg_read_header(cinfo, TRUE) and the test of its result: an unreadable
\* header sets the caller's error and goes to DONE
ReadHeader(s, next, done) ==
  LET c == Log(s, "jpeg_read_header") IN
  CodecReturn(c, "header", EmptyImage(c.stream),
    LET r == [c EXCEPT !.header_result = c.stream.header,
                       !.cinfo.global_state =
                          IF c.stream.header = JPEG_HEADER_OK
                          THEN "ready" ELSE "start"] IN
    IF HeaderUnreadable(r.header_result)
    THEN [Log(r, "set_err") EXCEPT
            !.err = g_set_error(@, MkErr("Couldn't read JPEG header", <<>>)),
            !.pc = done]
    ELSE [r EXCEPT !.pc = next])

\* lines 135-141
gd_header(t) ==
  /\ th[t].pc = "gd_header"
  /\ Set(t, ReadHeader(th[t], "gd_calc", "gd_done"))
  /\ UNCHANGED Shared

\* what jpeg_calc_output_dimensions (also run by jpeg_start_decompress)
\* computes at the default 1/1 scale
OutputDimensions(c) ==
  [c.cinfo EXCEPT
     !.output_width = c.stream.image_width,
     !.output_height = c.stream.image_height,
     !.output_components = IF c.cinfo.out_color_space = "JCS_GRAYSCALE"
                           THEN 1 ELSE 3,
     !.rec_outbuf_height = c.stream.rec]

\* jpeg_get_dimensions storing *w and *h from the header before
\* jpeg_calc_output_dimensions is called
gd_calc_writing_first(t) ==
  /\ th[t].pc = "gd_calc"
  /\ LET c == [Log(Log(th[t], "write_dims"), "jpeg_calc_output_dimensions") EXCEPT
                 !.w_out = th[t].stream.image_width,
                 !.h_out = th[t].stream.image_height] IN
     Set(t, CodecReturn(c, "calc", c.cinfo.global_state # "ready",
              [c EXCEPT !.cinfo = OutputDimensions(c),
                        !.result = TRUE,
                        !.pc = "gd_done"]))
  /\ UNCHANGED Shared

\* lines 143-147: jpeg_calc_output_dimensions, then the outputs are
\* written and the result is set
gd_calc(t) ==
  /\ th[t].pc = "gd_calc"
  /\ LET c == Log(th[t], "jpeg_calc_output_dimensions") IN
     Set(t, CodecReturn(c, "calc", c.cinfo.global_state # "ready",
              LET d == OutputDimensions(c) IN
              [Log(c, "write_dims") EXCEPT
                 !.cinfo = d,
                 !.w_out = d.output_width,
                 !.h_out = d.output_height,
                 !.result = TRUE,
                 !.pc = "gd_done"]))
  /\ UNCHANGED Shared

\* lines 148-151: setjmp returned again
gd_recover(t) ==
  /\ th[t].pc = "gd_recover"
  /\ LET r == _openslide_jpeg_propagate_error(th[t]) IN
     Set(t, IF r.pc = "aborted" THEN r ELSE [r EXCEPT !.pc = "gd_done"])
  /\ UNCHANGED Shared

\* lines 153-155
gd_done(t) ==
  /\ th[t].pc = "gd_done"
  /\ LET r == _openslide_jpeg_destroy_decompress(th[t]) IN
     Set(t, IF r.pc = "aborted" THEN r ELSE [r EXCEPT !.pc = "gd_ret"])
  /\ UNCHANGED Shared

\* the return of _openslide_jpeg_read_dimensions to its caller
RdReturn(s, success) ==
  IF s.op = "add"
  THEN [s EXCEPT !.success = success, !.pc = "add_check"]
  ELSE [Log(s, "return") EXCEPT !.ret = success, !.pc = "ret"]

\* line 157: return result, to _openslide_jpeg_read_dimensions (line 174)
\* or to the caller of _openslide_jpeg_decode_buffer_dimensions (line 183)
gd_ret(t) ==
  /\ th[t].pc = "gd_ret"
  /\ Set(t, IF th[t].usef
            THEN [th[t] EXCEPT !.success = th[t].result, !.pc = "rd_close"]
            ELSE [Log(th[t], "return") EXCEPT !.ret = th[t].result, !.pc = "ret"])
  /\ UNCHANGED Shared

---------------------------------------------------------------------------
(* _openslide_jpeg_read_dimensions *)

\* _openslide_fopen(filename, "rb", err): a handle, or NULL with err set
fopen_fails(s) == ~FileOpens(s.filename)

\* offset && fseeko(f, offset, SEEK_SET) == -1
seek_fails(s) == s.offset # 0 /\ ~FileSeeks(s.filename, s.offset)

OpenFile(s, next, failed) ==
  IF fopen_fails(s)
  THEN [Log(Log(s, "fopen_failed"), "set_err") EXCEPT
          !.err = g_set_error(@, MkErr("Couldn't open", <<>>)),
          !.success = FALSE, !.pc = failed]
  ELSE [Log(s, "fopen") EXCEPT !.file = "open", !.pc = next]

\* the seek whose failure path returns without the fclose of lines 170, 303
SeekFile_leaking(s, next, failed) ==
  LET k == IF s.offset # 0 THEN Log(s, "fseeko") ELSE s IN
  IF seek_fails(s)
  THEN [Log(k, "set_err") EXCEPT
          !.err = g_set_error(@, MkErr("Cannot seek to offset", <<>>)),
          !.success = FALSE, !.pc = failed]
  ELSE [k EXCEPT !.usef = TRUE,
                 !.stream = FileStream(s.filename, s.offset),
                 !.pc = next]

SeekFile(s, next, failed) ==
  LET k == IF s.offset # 0 THEN Log(s, "fseeko") ELSE s IN
  IF seek_fails(s)
  THEN [Log(Log(k, "set_err"), "fclose") EXCEPT
          !.err = g_set_error(@, MkErr("Cannot seek to offset", <<>>)),
          !.file = "closed", !.success = FALSE, !.pc = failed]
  ELSE [k EXCEPT !.usef = TRUE,
                 !.stream = FileStream(s.filename, s.offset),
                 !.pc = next]

\* lines 164-167
rd_open(t) ==
  /\ th[t].pc = "rd_open"
  /\ Set(t, OpenFile(th[t], "rd_seek", "rd_ret"))
  /\ UNCHANGED Shared

\* lines 168-174
rd_seek(t) ==
  /\ th[t].pc = "rd_seek"
  /\ Set(t, SeekFile(th[t], "gd_create", "rd_ret"))
  /\ UNCHANGED Shared

\* line 176
rd_close(t) ==
  /\ th[t].pc = "rd_close"
  /\ Set(t, [Log(th[t], "fclose") EXCEPT
               !.file = IF @ = "open" THEN "closed" ELSE "double_close",
               !.pc = "rd_ret"])
  /\ UNCHANGED Shared

\* lines 166, 171, 177: return
rd_ret(t) ==
  /\ th[t].pc = "rd_ret"
  /\ Set(t, RdReturn(th[t], th[t].success))
  /\ UNCHANGED Shared

---------------------------------------------------------------------------
(* PixelDecoder: jpeg_decode *)

\* a | b on 16-bit values
RECURSIVE BitOr(_, _)
BitOr(a, b) ==
  IF a = 0 THEN b
  ELSE IF b = 0 THEN a
  ELSE (IF a % 2 = 1 \/ b % 2 = 1 THEN 1 ELSE 0) + 2 * BitOr(a \div 2, b \div 2)

\* the 32-bit value of a sample shifted left by n bits (n = 0, 8 or 16)
Shl(a, n) ==
  IF n >= 16 THEN <<(a * 2^(n - 16)) % 65536, 0>>
  ELSE <<(a * 2^n) \div 65536, (a * 2^n) % 65536>>

Or32(x, y) == <<BitOr(x[1], y[1]), BitOr(x[2], y[2])>>

\* the packing with the shifts of R and G exchanged
PackARGB_swapped(r, g, b) ==
  Or32(Or32(Or32(ALPHA_OPAQUE, Shl(r, 8)), Shl(g, 16)), Shl(b, 0))

\* lines 259-262: 0xFF000000 | R << 16 | G << 8 | B
PackARGB(r, g, b) ==
  Or32(Or32(Or32(ALPHA_OPAQUE, Shl(r, 16)), Shl(g, 8)), Shl(b, 0))

\* the value written for column i of scanline k (lines 253, 259-262)
Pixel(k, i, ncomp) ==
  IF ncomp = 1 THEN <<0, Sample(k, i, 0, 1)>>
  ELSE PackARGB(Sample(k, i, 0, 3), Sample(k, i, 1, 3), Sample(k, i, 2, 3))

\* the dimension test with && for ||
DimsMismatch_both(w, h, width, height) == w # width /\ h # height

\* the dimension test on the width alone
DimsMismatch_width(w, h, width, height) == w # width

\* line 224: w != width || h != height
DimsMismatch(w, h, width, height) == w # width \/ h # height

\* jpeg_decode allocating the staging array with g_slice_alloc: the array
\* holds what the recycled memory held
jd_create_not_zeroing(t) ==
  /\ th[t].pc = "jd_create"
  /\ Set(t, [Log(_openslide_jpeg_create_decompress(th[t]), "alloc_buffer") EXCEPT
               !.buffer = IF @ = <<>> THEN [i \in 1..MAX_SAMP_FACTOR |-> 0] ELSE @,
               !.buffer_mem = "live",
               !.pc = "jd_setjmp"])
  /\ UNCHANGED Shared

\* lines 195-196: the session and the zeroed staging array
jd_create(t) ==
  /\ th[t].pc = "jd_create"
  /\ Set(t, [Log(_openslide_jpeg_create_decompress(th[t]), "alloc_buffer") EXCEPT
               !.buffer = [i \in 1..MAX_SAMP_FACTOR |-> 0],
               !.buffer_mem = "live",
               !.pc = "jd_setjmp"])
  /\ UNCHANGED Shared

\* line 198
jd_setjmp(t) ==
  /\ th[t].pc = "jd_setjmp"
  /\ Set(t, [Log(th[t], "setjmp") EXCEPT !.env = "jd_recover", !.pc = "jd_init"])
  /\ UNCHANGED Shared

\* jpeg_decode with one error manager for all sessions (a static struct
\* in place of the g_slice_new0 of line 86): installing it for this call
\* points the bridge of every other running call at this call's jmp_buf
jd_init_static_bridge(t) ==
  /\ th[t].pc = "jd_init"
  /\ th' = [u \in DOMAIN th |->
              IF u = t THEN _openslide_jpeg_init_decompress(th[t], "jd_src")
              ELSE IF th[u].jerr.mem = "live"
                   THEN [th[u] EXCEPT !.jerr.env = FALSE]
                   ELSE th[u]]
  /\ UNCHANGED Shared

\* line 199
jd_init(t) ==
  /\ th[t].pc = "jd_init"
  /\ Set(t, _openslide_jpeg_init_decompress(th[t], "jd_src"))
  /\ UNCHANGED Shared

\* lines 202-206
jd_src(t) ==
  /\ th[t].pc = "jd_src"
  /\ Set(t, BindSource(th[t], "jd_header"))
  /\ UNCHANGED Shared

\* lines 209-215
jd_header(t) ==
  /\ th[t].pc = "jd_header"
  /\ Set(t, ReadHeader(th[t], "jd_start", "jd_done"))
  /\ UNCHANGED Shared

\* lines 222-230: the dimension check after jpeg_start_decompress
CheckDimensions(c) ==
  LET width == c.cinfo.output_width
      height == c.cinfo.output_height IN
  IF DimsMismatch(c.w, c.h, width, height)
  THEN [Log(c, "set_err") EXCEPT
          !.err = g_set_error(@, MkErr("Dimensional mismatch reading JPEG",
                                       <<c.w, c.h, width, height>>)),
          !.pc = "jd_done"]
  ELSE [c EXCEPT !.pc = "jd_alloc"]

\* lines 217-230: select the output colour space, jpeg_start_decompress,
\* check the dimensions.  jpeg_start_decompress computes the output
\* dimensions and the batch height first, so they are set when an error
\* leaves it later.
jd_start(t) ==
  /\ th[t].pc = "jd_start"
  /\ LET b == [Log(th[t], "jpeg_start_decompress") EXCEPT
                 !.cinfo.out_color_space =
                    IF th[t].grayscale THEN "JCS_GRAYSCALE" ELSE "JCS_RGB"]
         ready == b.cinfo.global_state = "ready"
         c == IF ready
              THEN [b EXCEPT !.cinfo = [OutputDimensions(b) EXCEPT
                                          !.output_scanline = 0]]
              ELSE b IN
     Set(t, CodecReturn(c, "start", ~ready,
              CheckDimensions([c EXCEPT !.cinfo.global_state = "scanning"])))
  /\ UNCHANGED Shared

\* lines 235-237: buffer[i] = g_slice_alloc(row_size) for
\* i < rec_outbuf_height; row i+1 of the heap is the block buffer[i]
\* points to.  A store past the staging array is counted in oob.
AllocRows(s) ==
  LET n == s.cinfo.rec_outbuf_height IN
  [s EXCEPT
     !.buffer = [i \in 1..MAX_SAMP_FACTOR |->
                   IF i <= n /\ s.row_size > 0 THEN i ELSE @[i]],
     !.rows = [i \in 1..MAX_SAMP_FACTOR |->
                 IF i <= n /\ s.row_size > 0 THEN "live" ELSE @[i]],
     !.oob = @ + (IF n > MAX_SAMP_FACTOR THEN n - MAX_SAMP_FACTOR ELSE 0),
     !.log = @ \o [i \in 1..Min(n, MAX_SAMP_FACTOR) |-> "alloc_row"]]

\* lines 233-241
jd_alloc(t) ==
  /\ th[t].pc = "jd_alloc"
  /\ Set(t, [AllocRows([th[t] EXCEPT
                          !.row_size = th[t].cinfo.output_width *
                                       th[t].cinfo.output_components])
               EXCEPT !.dpos = 0, !.pc = "jd_loop"])
  /\ UNCHANGED Shared

\* jpeg_read_scanlines on a source that can suspend: a call may return
\* having delivered no row
RowsDelivered_suspending(c, max_lines) ==
  LET m == Min(max_lines, c.cinfo.output_height - c.cinfo.output_scanline) IN
  IF m <= 0 THEN {0} ELSE 0..m

\* the numbers of rows one jpeg_read_scanlines(cinfo, buffer, max_lines)
\* call may deliver: at least one, at most max_lines and at most what is
\* left of the image
RowsDelivered(c, max_lines) ==
  LET m == Min(max_lines, c.cinfo.output_height - c.cinfo.output_scanline) IN
  IF m <= 0 THEN {0} ELSE 1..m

\* lines 242-246 and 272: the loop test; jpeg_read_scanlines fills the
\* first rows of the staging array
jd_loop(t) ==
  /\ th[t].pc = "jd_loop"
  /\ LET s == th[t] IN
     IF s.cinfo.output_scanline < s.cinfo.output_height
     THEN LET c == Log(s, "jpeg_read_scanlines")
              step == IF s.cinfo.output_scanline = 0 THEN "scan0" ELSE "scan1" IN
          \E n \in RowsDelivered(c, c.cinfo.rec_outbuf_height) :
            Set(t, CodecReturn(c, step, FALSE,
                     [c EXCEPT
                        !.rows_read = n,
                        !.cur_buffer = 0,
                        !.stage = [i \in 1..MAX_SAMP_FACTOR |->
                                     IF i <= n
                                     THEN c.cinfo.output_scanline + i - 1
                                     ELSE @[i]],
                        !.oob = @ + Cardinality({i \in 1..n :
                                   i > MAX_SAMP_FACTOR \/ c.buffer[i] = 0
                                   \/ c.rows[c.buffer[i]] # "live"}),
                        !.cinfo.output_scanline = @ + n,
                        !.pc = IF n > 0 THEN "jd_copy" ELSE "jd_loop"]))
     ELSE Set(t, [s EXCEPT !.result = TRUE, !.pc = "jd_done"])
  /\ UNCHANGED Shared

\* the copy of a row without the advance of the destination pointer
\* (lines 255, 264)
CopyRow_not_advancing(s) ==
  LET k == s.stage[s.cur_buffer + 1]
      wd == s.cinfo.output_width
      nc == s.cinfo.output_components IN
  [Log(s, "write_row") EXCEPT
     !.dest = [j \in 1..Len(s.dest) |->
                 IF j - 1 >= s.dpos /\ j - 1 < s.dpos + wd
                 THEN Pixel(k, j - 1 - s.dpos, nc) ELSE @[j]],
     !.wcount = [j \in 1..Len(s.dest) |->
                   IF j - 1 >= s.dpos /\ j - 1 < s.dpos + wd
                   THEN @[j] + 1 ELSE @[j]],
     !.oob = @ + Cardinality({i \in 0..(wd - 1) : s.dpos + i >= Len(s.dest)})]

\* lines 250-265: copy staging row cur_buffer to the destination at dpos
CopyRow(s) ==
  LET k == s.stage[s.cur_buffer + 1]
      wd == s.cinfo.output_width
      nc == s.cinfo.output_components IN
  [Log(s, "write_row") EXCEPT
     !.dest = [j \in 1..Len(s.dest) |->
                 IF j - 1 >= s.dpos /\ j - 1 < s.dpos + wd
                 THEN Pixel(k, j - 1 - s.dpos, nc) ELSE @[j]],
     !.wcount = [j \in 1..Len(s.dest) |->
                   IF j - 1 >= s.dpos /\ j - 1 < s.dpos + wd
                   THEN @[j] + 1 ELSE @[j]],
     !.oob = @ + Cardinality({i \in 0..(wd - 1) : s.dpos + i >= Len(s.dest)}),
     !.dpos = @ + wd]

\* lines 247-270: one row of the inner loop
jd_copy(t) ==
  /\ th[t].pc = "jd_copy"
  /\ th[t].rows_read > 0
  /\ Set(t, [CopyRow(th[t]) EXCEPT
               !.rows_read = @ - 1,
               !.cur_buffer = @ + 1,
               !.pc = IF th[t].rows_read = 1 THEN "jd_loop" ELSE "jd_copy"])
  /\ UNCHANGED Shared

\* lines 273-276: setjmp has returned again
jd_recover(t) ==
  /\ th[t].pc = "jd_recover"
  /\ LET r == _openslide_jpeg_propagate_error(th[t]) IN
     Set(t, IF r.pc = "aborted" THEN r ELSE [r EXCEPT !.pc = "jd_done"])
  /\ UNCHANGED Shared

\* g_slice_free1(row_size, buffer[i]) for i < n.  Freeing NULL does
\* nothing; freeing a block that is not live, or reading past the staging
\* array, is counted in badfree.
RECURSIVE FreeRowsFrom(_, _, _)
FreeRowsFrom(s, i, n) ==
  IF i > n THEN s
  ELSE IF i > MAX_SAMP_FACTOR
       THEN FreeRowsFrom([s EXCEPT !.badfree = @ + 1], i + 1, n)
  ELSE IF s.buffer[i] = 0
       THEN FreeRowsFrom(Log(s, "free_null"), i + 1, n)
  ELSE IF s.rows[s.buffer[i]] = "live"
       THEN FreeRowsFrom([Log(s, "free_row") EXCEPT !.rows[s.buffer[i]] = "freed"],
                         i + 1, n)
  ELSE FreeRowsFrom([s EXCEPT !.badfree = @ + 1], i + 1, n)

\* the rows freed only after the loop completed
FreeRows_on_success(s) ==
  IF s.result THEN FreeRowsFrom(s, 1, s.cinfo.rec_outbuf_height) ELSE s

\* lines 280-282
FreeRows(s) == FreeRowsFrom(s, 1, s.cinfo.rec_outbuf_height)

\* lines 278-285: free the rows, the staging array, the session
jd_done(t) ==
  /\ th[t].pc = "jd_done"
  /\ LET f == [Log(FreeRows(th[t]), "free_buffer") EXCEPT !.buffer_mem = "freed"]
         r == _openslide_jpeg_destroy_decompress(f) IN
     Set(t, IF r.pc = "aborted" THEN r ELSE [r EXCEPT !.pc = "jd_ret"])
  /\ UNCHANGED Shared

\* line 287: return result, to _openslide_jpeg_read (line 307) or to the
\* caller of a buffer decode (lines 319, 328)
jd_ret(t) ==
  /\ th[t].pc = "jd_ret"
  /\ Set(t, IF th[t].usef
            THEN [th[t] EXCEPT !.success = th[t].result, !.pc = "jr_close"]
            ELSE [Log(th[t], "return") EXCEPT !.ret = th[t].result, !.pc = "ret"])
  /\ UNCHANGED Shared

---------------------------------------------------------------------------
(* _openslide_jpeg_read *)

\* lines 297-300
jr_open(t) ==
  /\ th[t].pc = "jr_open"
  /\ Set(t, OpenFile(th[t], "jr_seek", "jr_ret"))
  /\ UNCHANGED Shared

\* lines 301-307
jr_seek(t) ==
  /\ th[t].pc = "jr_seek"
  /\ Set(t, SeekFile(th[t], "jd_create", "jr_ret"))
  /\ UNCHANGED Shared

\* line 309
jr_close(t) ==
  /\ th[t].pc = "jr_close"
  /\ Set(t, [Log(th[t], "fclose") EXCEPT
               !.file = IF @ = "open" THEN "closed" ELSE "double_close",
               !.pc = "jr_ret"])
  /\ UNCHANGED Shared

\* lines 299, 304, 310: return (through get_associated_image_data,
\* line 338, when the call is a materialize)
jr_ret(t) ==
  /\ th[t].pc = "jr_ret"
  /\ Set(t, [Log(th[t], "return") EXCEPT !.ret = th[t].success, !.pc = "ret"])
  /\ UNCHANGED Shared

---------------------------------------------------------------------------
(* The calls a thread makes *)

\* an element of the destination the call has not written
Unwritten == <<UNWRITTEN, UNWRITTEN>>

\* a caller-allocated destination of w * h elements
NewDest(s, w, h) ==
  [s EXCEPT !.w = w, !.h = h,
            !.dest = [j \in 1..(w * h) |-> Unwritten],
            !.wcount = [j \in 1..(w * h) |-> 0]]

\* _openslide_jpeg_read_dimensions(filename, offset, &w, &h, &err)
Call_read_dimensions(t) ==
  /\ th[t].pc = "idle"
  /\ \E fn \in Filenames, off \in Offsets :
       Set(t, [Idle EXCEPT !.op = "read_dimensions", !.filename = fn,
                           !.offset = off, !.pc = "rd_open"])
  /\ UNCHANGED Shared

\* _openslide_jpeg_decode_buffer_dimensions(buf, len, &w, &h, &err)
Call_decode_buffer_dimensions(t) ==
  /\ th[t].pc = "idle"
  /\ \E st \in Streams :
       Set(t, [Idle EXCEPT !.op = "decode_buffer_dimensions", !.stream = st,
                           !.pc = "gd_create"])
  /\ UNCHANGED Shared

\* _openslide_jpeg_read(filename, offset, dest, w, h, &err)
Call_read(t) ==
  /\ th[t].pc = "idle"
  /\ \E fn \in Filenames, off \in Offsets, w \in 1..MaxW, h \in 1..MaxH :
       Set(t, NewDest([Idle EXCEPT !.op = "read", !.filename = fn,
                                   !.offset = off, !.pc = "jr_open"], w, h))
  /\ UNCHANGED Shared

\* _openslide_jpeg_decode_buffer(buf, len, dest, w, h, &err)
Call_decode_buffer(t) ==
  /\ th[t].pc = "idle"
  /\ \E st \in Streams, w \in 1..MaxW, h \in 1..MaxH :
       Set(t, NewDest([Idle EXCEPT !.op = "decode_buffer", !.stream = st,
                                   !.pc = "jd_create"], w, h))
  /\ UNCHANGED Shared

\* _openslide_jpeg_decode_buffer_gray(buf, len, dest, w, h, &err)
Call_decode_buffer_gray(t) ==
  /\ th[t].pc = "idle"
  /\ \E st \in Streams, w \in 1..MaxW, h \in 1..MaxH :
       Set(t, NewDest([Idle EXCEPT !.op = "decode_buffer_gray", !.stream = st,
                                   !.grayscale = TRUE, !.pc = "jd_create"], w, h))
  /\ UNCHANGED Shared

\* a caller that probed a buffer successfully decodes the same buffer,
\* with the probed dimensions or with others
Call_decode_after_probe(t) ==
  /\ th[t].pc = "ret"
  /\ th[t].op = "decode_buffer_dimensions"
  /\ th[t].ret
  /\ \E w \in 1..MaxW, h \in 1..MaxH, g \in BOOLEAN :
       Set(t, NewDest([Idle EXCEPT
                         !.op = IF g THEN "decode_buffer_gray" ELSE "decode_buffer",
                         !.stream = th[t].stream, !.grayscale = g,
                         !.probed = TRUE, !.probed_w = th[t].w_out,
                         !.probed_h = th[t].h_out, !.pc = "jd_create"], w, h))
  /\ UNCHANGED Shared

\* a thread whose call failed through the bridge calls a probe or a decode
\* on a valid buffer.  The new frame and the blocks the allocator recycles
\* hold what the failed call left in them: the jmp_buf, the staging array
\* and the staging rows.
Call_after_failure(t) ==
  /\ th[t].pc = "ret"
  /\ ~th[t].ret
  /\ First(th[t].log, "longjmp") > 0
  /\ \E w \in 1..MaxW, h \in 1..MaxH, r \in 1..Min(MaxRec, MAX_SAMP_FACTOR),
        op \in {"decode_buffer_dimensions", "decode_buffer", "decode_buffer_gray"},
        swap \in BOOLEAN :
       LET f == [Idle EXCEPT !.op = op, !.stream = GoodStream(w, h, r),
                             !.grayscale = (op = "decode_buffer_gray"),
                             !.after_failure = TRUE,
                             !.env = "stale",
                             !.buffer = th[t].buffer,
                             !.stage = th[t].stage] IN
       IF op = "decode_buffer_dimensions"
       THEN ~swap /\ Set(t, [f EXCEPT !.pc = "gd_create"])
       ELSE Set(t, [NewDest(f, IF swap THEN h ELSE w, IF swap THEN w ELSE h)
                      EXCEPT !.pc = "jd_create"])
  /\ UNCHANGED Shared

\* the caller takes the result; the thread is free for the next call
Return(t) ==
  /\ th[t].pc = "ret"
  /\ Set(t, Idle)
  /\ UNCHANGED Shared

---------------------------------------------------------------------------
(* AssociatedImageRegistry *)

\* the names a format driver registers associated images under
Names == {"label", "macro"}

\* the values the table holds under a key: what g_hash_table_lookup
\* can return
Lookup(tbl, key) == {p.value : p \in {q \in tbl : q.key = key}}

\* destroy_associated_image: releases the entry's filename and the entry;
\* heap[id].frees counts the releases of entry id
destroy_associated_image(heap, img) ==
  [heap EXCEPT ![img.id].frees = @ + 1]

\* the value-destroy function the slide object gives the table when it
\* creates it: the entry's destroy operation
value_destroy_func(heap, img) == destroy_associated_image(heap, img)

\* the table after g_hash_table_insert(tbl, key, value): a pair already
\* stored under an equal key is replaced
g_hash_table_insert(tbl, key, value) ==
  {q \in tbl : q.key # key} \cup {[key |-> key, value |-> value]}

\* lines 365-370: the new entry; id is its place in the heap
NewImage(s, id) ==
  [id |-> id, w |-> s.w_out, h |-> s.h_out,
   filename |-> s.filename, offset |-> s.offset]

\* the insertion keyed by the filename
InsertKey_filename(s) == s.filename

\* line 372: the key of the insertion, g_strdup(name)
InsertKey(s) == s.name

\* the registration without the return of line 362: a failed probe is
\* prefixed and the entry is inserted all the same
add_check_falling_through(t) ==
  /\ th[t].pc = "add_check"
  /\ LET s == th[t]
         img == NewImage(s, Len(img_heap) + 1)
         heap == Append(img_heap, [name |-> s.name, frees |-> 0])
         old == Lookup(associated_images, InsertKey(s)) IN
     /\ associated_images' =
          g_hash_table_insert(associated_images, InsertKey(s), img)
     /\ img_heap' =
          IF old = {} THEN heap
          ELSE value_destroy_func(heap, CHOOSE e \in old : TRUE)
     /\ Set(t, [Log(Log(s, "insert"), "return") EXCEPT
                  !.err = IF s.success THEN @ ELSE g_prefix_error(@, s.name),
                  !.ret = s.success, !.pc = "ret"])
  /\ UNCHANGED <<pk_in, pk_out>>

\* lines 360-374: a failed probe prefixes the error and returns false;
\* otherwise the entry is allocated, filled and inserted, and the table
\* releases the entry it replaces
add_check(t) ==
  /\ th[t].pc = "add_check"
  /\ LET s == th[t] IN
     IF ~s.success
     THEN /\ Set(t, [Log(Log(s, "prefix_error"), "return") EXCEPT
                       !.err = g_prefix_error(@, s.name),
                       !.ret = FALSE, !.pc = "ret"])
          /\ UNCHANGED <<associated_images, img_heap>>
     ELSE LET img == NewImage(s, Len(img_heap) + 1)
              heap == Append(img_heap, [name |-> s.name, frees |-> 0])
              old == Lookup(associated_images, InsertKey(s)) IN
          /\ associated_images' =
               g_hash_table_insert(associated_images, InsertKey(s), img)
          /\ img_heap' =
               IF old = {} THEN heap
               ELSE value_destroy_func(heap, CHOOSE e \in old : TRUE)
          /\ Set(t, [Log(Log(s, "insert"), "return") EXCEPT
                       !.ret = TRUE, !.pc = "ret"])
  /\ UNCHANGED <<pk_in, pk_out>>

\* _openslide_jpeg_add_associated_image(osr, name, filename, offset, &err)
Call_add_associated_image(t) ==
  /\ th[t].pc = "idle"
  /\ Len(img_heap) < MaxImgs
  /\ \E nm \in Names, fn \in Filenames, off \in Offsets :
       Set(t, [Idle EXCEPT !.op = "add", !.name = nm, !.filename = fn,
                           !.offset = off, !.pc = "rd_open"])
  /\ UNCHANGED Shared

\* get_associated_image_data passing img->base.h for the width and
\* img->base.w for the height
Call_get_associated_image_data_swapped(t) ==
  /\ th[t].pc = "idle"
  /\ \E p \in associated_images :
       Set(t, NewDest([Log(Idle, "get_associated_image_data") EXCEPT
                         !.op = "materialize", !.name = p.key,
                         !.filename = p.value.filename,
                         !.offset = p.value.offset,
                         !.pc = "jr_open"], p.value.h, p.value.w))
  /\ UNCHANGED Shared

\* lines 331-340, get_associated_image_data(img, dest, &err): the caller
\* looked the entry up by name and allocated dest for its w and h
Call_get_associated_image_data(t) ==
  /\ th[t].pc = "idle"
  /\ \E p \in associated_images :
       Set(t, NewDest([Log(Idle, "get_associated_image_data") EXCEPT
                         !.op = "materialize", !.name = p.key,
                         !.filename = p.value.filename,
                         !.offset = p.value.offset,
                         !.pc = "jr_open"], p.value.w, p.value.h))
  /\ UNCHANGED Shared

\* get(name): the caller looks the name up in the table and gets the entry
\* (its capabilities and dimensions) or nothing; ret tells which
Call_get(t) ==
  /\ th[t].pc = "idle"
  /\ \E nm \in Names :
       Set(t, [Log(Log(Idle, "lookup"), "return") EXCEPT
                 !.op = "get", !.name = nm,
                 !.ret = Lookup(associated_images, nm) # {},
                 !.pc = "ret"])
  /\ UNCHANGED Shared

---------------------------------------------------------------------------
(* Specifications *)

NoPack == <<0, 0, 0>>

\* the thread of the sequential specifications
Callers == {1}

Init ==
  /\ th = [t \in Callers |-> Idle]
  /\ associated_images = {}
  /\ img_heap = <<>>
  /\ pk_in = NoPack
  /\ pk_out = <<>>

\* the steps of a probe, a decode and their file wrappers
Steps(t) ==
  \/ gd_create(t) \/ gd_setjmp(t) \/ gd_init(t) \/ gd_src(t) \/ gd_header(t)
  \/ gd_calc(t) \/ gd_recover(t) \/ gd_done(t) \/ gd_ret(t)
  \/ rd_open(t) \/ rd_seek(t) \/ rd_close(t) \/ rd_ret(t)
  \/ jd_create(t) \/ jd_setjmp(t) \/ jd_init(t) \/ jd_src(t) \/ jd_header(t)
  \/ jd_start(t) \/ jd_alloc(t) \/ jd_loop(t) \/ jd_copy(t) \/ jd_recover(t)
  \/ jd_done(t) \/ jd_ret(t)
  \/ jr_open(t) \/ jr_seek(t) \/ jr_close(t) \/ jr_ret(t)

Next ==
  \E t \in Callers :
    \/ Call_read_dimensions(t) \/ Call_decode_buffer_dimensions(t)
    \/ Call_read(t) \/ Call_decode_buffer(t) \/ Call_decode_buffer_gray(t)
    \/ Call_decode_after_probe(t) \/ Call_after_failure(t) \/ Return(t)
    \/ Steps(t)

Spec == Init /\ [][Next]_vars

\* the steps of a decode and of its file wrapper
DecodeSteps(t) ==
  \/ jd_create(t) \/ jd_setjmp(t) \/ jd_init(t) \/ jd_src(t) \/ jd_header(t)
  \/ jd_start(t) \/ jd_alloc(t) \/ jd_loop(t) \/ jd_copy(t) \/ jd_recover(t)
  \/ jd_done(t) \/ jd_ret(t)
  \/ jr_open(t) \/ jr_seek(t) \/ jr_close(t) \/ jr_ret(t)

\* the decode entry points alone
NextDecode ==
  \E t \in Callers :
    \/ Call_read(t) \/ Call_decode_buffer(t) \/ Call_decode_buffer_gray(t)
    \/ Return(t)
    \/ DecodeSteps(t)

\* a call is synchronous: the thread that made it keeps running it
Fairness == \A t \in Callers : WF_vars(DecodeSteps(t))

SpecFair == Init /\ [][NextDecode]_vars /\ Fairness

\* registration, materialization and the file-based probe and decode
NextReg ==
  \E t \in Callers :
    \/ Call_add_associated_image(t) \/ add_check(t)
    \/ Call_get(t) \/ Call_get_associated_image_data(t)
    \/ Call_read_dimensions(t) \/ Call_read(t) \/ Return(t)
    \/ Steps(t)

SpecReg == Init /\ [][NextReg]_vars

\* the threads of the concurrent specification
ConcCallers == {1, 2}

\* the sources the concurrent calls read, each call through a handle of
\* its own
ConcSources ==
  {<<"slide.jpg", 0>>, <<"slide.jpg", 4096>>, <<"cmyk.jpg", 0>>,
   <<"cmyk.jpg", 4096>>}

\* the entry a registration of (filename, offset) leaves in the table
RegisteredEntry(id, filename, offset) ==
  [id |-> id, w |-> FileStream(filename, offset).image_width,
   h |-> FileStream(filename, offset).image_height,
   filename |-> filename, offset |-> offset]

\* the slide after construction: two associated images are registered
InitConc ==
  /\ th = [t \in ConcCallers |-> Idle]
  /\ associated_images =
       {[key |-> "label", value |-> RegisteredEntry(1, "slide.jpg", 0)],
        [key |-> "macro", value |-> RegisteredEntry(2, "slide.jpg", 4096)]}
  /\ img_heap = <<[name |-> "label", frees |-> 0],
                  [name |-> "macro", frees |-> 0]>>
  /\ pk_in = NoPack
  /\ pk_out = <<>>

\* _openslide_jpeg_read_dimensions on one of the sources
Conc_read_dimensions(t) ==
  /\ th[t].pc = "idle"
  /\ \E src \in ConcSources :
       Set(t, [Idle EXCEPT !.op = "read_dimensions", !.filename = src[1],
                           !.offset = src[2], !.pc = "rd_open"])
  /\ UNCHANGED Shared

\* _openslide_jpeg_read on one of the sources, the destination sized for
\* the dimensions a probe of the source returns
Conc_read(t) ==
  /\ th[t].pc = "idle"
  /\ \E src \in ConcSources :
       Set(t, NewDest([Idle EXCEPT !.op = "read", !.filename = src[1],
                                   !.offset = src[2], !.pc = "jr_open"],
                      FileStream(src[1], src[2]).image_width,
                      FileStream(src[1], src[2]).image_height))
  /\ UNCHANGED Shared

\* probes, decodes and materializations running on two threads
NextConc ==
  \E t \in ConcCallers :
    \/ Conc_read_dimensions(t) \/ Conc_read(t)
    \/ Call_get_associated_image_data(t) \/ Return(t)
    \/ Steps(t)

SpecConc == InitConc /\ [][NextConc]_vars

\* the sample values of the pixel-packing specification
PackVals == {0, 1, 2, 127, 128, 254, 255}

InitPack ==
  /\ th = [t \in Callers |-> Idle]
  /\ associated_images = {}
  /\ img_heap = <<>>
  /\ pk_in \in PackVals \X PackVals \X PackVals
  /\ pk_out = <<>>

\* one pixel of the RGB branch of the copy loop (lines 259-262)
PackPixel ==
  /\ pk_out = <<>>
  /\ pk_out' = PackARGB(pk_in[1], pk_in[2], pk_in[3])
  /\ UNCHANGED <<th, associated_images, img_heap, pk_in>>

SpecPack == InitPack /\ [][PackPixel]_vars

---------------------------------------------------------------------------
(* Properties *)

\* the libjpeg entry points the code calls on a session
CodecWork ==
  {"jpeg_create_decompress", "stdio_src", "mem_src", "jpeg_read_header",
   "jpeg_calc_output_dimensions", "jpeg_start_decompress",
   "jpeg_read_scanlines"}
CodecCalls == CodecWork \cup {"jpeg_destroy_decompress"}

Probing(s) == s.op \in {"read_dimensions", "decode_buffer_dimensions", "add"}
Decoding(s) ==
  s.op \in {"read", "decode_buffer", "decode_buffer_gray", "materialize"}

\* jpeg_get_dimensions or jpeg_decode has reached its return statement
SessionCallOver(s) ==
  s.pc \in {"gd_ret", "jd_ret", "rd_close", "jr_close", "rd_ret", "jr_ret",
            "add_check", "ret"}

Has(l, e) == First(l, e) > 0

\* C1: in every probe and decode the session the call created is destroyed
\* exactly once before the call returns, on every exit path, and no codec
\* call is made on it after it is destroyed.
C1_SessionDestroyedOnce ==
  \A t \in DOMAIN th :
    LET s == th[t]
        l == s.log
        d == First(l, "destroy") IN
    /\ Count(l, "create") <= 1
    /\ Count(l, "destroy") <= 1
    /\ (d > 0) <=> (s.cinfo.mem = "freed")
    /\ d > 0 => /\ First(l, "create") > 0
                /\ First(l, "create") < d
                /\ \A j \in (d + 1)..Len(l) : l[j] \notin CodecCalls
    /\ s.badfree = 0
    /\ s.pc \notin {"aborted", "undefined"}
    /\ (SessionCallOver(s) /\ Has(l, "create")) => d > 0

\* a decode that left through the bridge has returned, its session destroyed
C1_Witness ==
  \E t \in DOMAIN th :
    /\ th[t].pc = "ret" /\ Decoding(th[t])
    /\ Has(th[t].log, "longjmp")
    /\ Count(th[t].log, "destroy") = 1
    /\ th[t].cinfo.mem = "freed"

\* C2: the bridge never holds more than one pending error; a captured
\* error is moved out exactly once by propagate-error before the session
\* is destroyed, so the assertion of destroy never fails; control at the
\* recovery point always finds exactly one pending error.
C2_OnePendingError ==
  \A t \in DOMAIN th :
    LET s == th[t]
        l == s.log
        nc == Count(l, "capture")
        np == Count(l, "propagate") IN
    /\ s.jerr.err.over = 0
    /\ nc <= 1
    /\ np <= nc
    /\ s.jerr.err.set <=> (nc = np + 1)
    /\ Has(l, "jpeg_destroy_decompress") => (~s.jerr.err.set /\ nc = np)
    /\ ~Has(l, "assert") /\ s.pc # "aborted"
    /\ s.pc \in {"gd_recover", "jd_recover"} =>
         /\ s.jerr.err.set
         /\ nc = 1 /\ np = 0
         /\ l[Len(l)] = "longjmp"
    /\ np = 1 => (s.err.set /\ s.err.over = 0)

\* a call whose captured error was moved out has destroyed its session
C2_Witness ==
  \E t \in DOMAIN th :
    /\ th[t].pc = "ret"
    /\ Count(th[t].log, "capture") = 1
    /\ Count(th[t].log, "propagate") = 1
    /\ Has(th[t].log, "destroy")
    /\ th[t].err.set

\* the log entry of the libjpeg call of a step
CallOf(s, step) ==
  CASE step = "create" -> "jpeg_create_decompress"
    [] step = "src"    -> IF s.usef THEN "stdio_src" ELSE "mem_src"
    [] step = "header" -> "jpeg_read_header"
    [] step = "calc"   -> "jpeg_calc_output_dimensions"
    [] step = "start"  -> "jpeg_start_decompress"
    [] OTHER           -> "jpeg_read_scanlines"

\* the place in the log of the first libjpeg call during which the stream
\* of the call makes the codec raise its message, 0 if it was not made
EmitPos(s) ==
  IF s.stream.at = "none" THEN 0
  ELSE LET e == CallOf(s, s.stream.at)
           p == First(s.log, e) IN
       IF s.stream.at = "scan1" /\ p > 0 THEN IndexFrom(s.log, e, p + 1) ELSE p

\* C3: when the codec emits a warning (level below zero) the bridge
\* captures it and escapes, the call fails with that error, and no codec
\* entry point is called and nothing is written after it (only the session
\* teardown follows); a message of level zero or above captures nothing and
\* the call goes on.
C3_WarningIsFatal ==
  \A t \in DOMAIN th :
    LET s == th[t]
        l == s.log
        p == EmitPos(s) IN
    (p > 0 /\ ~s.stream.fatal) =>
      IF s.stream.level < 0
      THEN /\ Len(l) >= p + 3
           /\ l[p + 1] = "warning" /\ l[p + 2] = "capture" /\ l[p + 3] = "longjmp"
           /\ \A j \in (p + 1)..Len(l) :
                l[j] \notin CodecWork \cup {"write_row", "write_dims", "alloc_row"}
           /\ s.jerr.err.set => s.jerr.err.msg = CodecMsg(s.stream.at)
           /\ s.pc = "ret" =>
                (~s.ret /\ s.err.set /\ s.err.msg = CodecMsg(s.stream.at))
      ELSE /\ ~Has(l, "capture") /\ ~Has(l, "longjmp") /\ ~s.jerr.err.set
           /\ (s.pc = "ret" /\ Probing(s)) =>
                (s.ret /\ s.w_out = s.stream.image_width
                       /\ s.h_out = s.stream.image_height)
           /\ (s.pc = "ret" /\ Decoding(s)) =>
                (s.ret <=> (s.w = s.stream.image_width
                            /\ s.h = s.stream.image_height))

\* a decode that met a warning after writing a row has returned failure
C3_Witness ==
  \E t \in DOMAIN th :
    /\ th[t].pc = "ret" /\ Decoding(th[t])
    /\ Has(th[t].log, "warning")
    /\ Has(th[t].log, "write_row")
    /\ ~th[t].ret /\ th[t].err.set

Delivered(s) == Count(s.log, "set_err") + Count(s.log, "propagate")

\* C4: every probe, decode and register call returns success with no error
\* or failure with exactly one error delivered to the caller; the caller's
\* error is never set twice and the process is never aborted.
C4_OneStructuredError ==
  \A t \in DOMAIN th :
    LET s == th[t] IN
    /\ s.pc \notin {"aborted", "undefined"}
    /\ ~Has(s.log, "assert") /\ ~Has(s.log, "exit")
    /\ s.err.over = 0
    /\ Delivered(s) <= 1
    /\ s.err.set <=> (Delivered(s) = 1)
    /\ (s.pc = "ret" /\ (Probing(s) \/ Decoding(s))) => (s.ret <=> ~s.err.set)

\* a register call whose probe left through the bridge has returned failure
\* with one error
C4_Witness ==
  \E t \in DOMAIN th :
    /\ th[t].pc = "ret" /\ th[t].op = "add"
    /\ ~th[t].ret /\ th[t].err.set
    /\ Has(th[t].log, "longjmp")
    /\ Delivered(th[t]) = 1

MismatchMsg == "Dimensional mismatch reading JPEG"

NoWrites(s) ==
  /\ ~Has(s.log, "write_row")
  /\ \A j \in DOMAIN s.dest : s.dest[j] = Unwritten /\ s.wcount[j] = 0

\* jpeg_start_decompress has returned in the decode of frame s
StartReturned(s) == Decoding(s) /\ s.cinfo.global_state = "scanning"

\* C5: when the output width or height after jpeg_start_decompress differs
\* from the expected one, the decode fails with an error carrying the
\* expected and the actual pair, allocates no staging row and writes
\* nothing to the destination.
C5_MismatchFails ==
  \A t \in DOMAIN th :
    LET s == th[t] IN
    (StartReturned(s) /\ (s.w # s.cinfo.output_width
                          \/ s.h # s.cinfo.output_height)) =>
      /\ s.err = MkErr(MismatchMsg, <<s.w, s.h, s.cinfo.output_width,
                                      s.cinfo.output_height>>)
      /\ ~Has(s.log, "alloc_row")
      /\ \A i \in 1..MAX_SAMP_FACTOR : s.rows[i] = "none"
      /\ NoWrites(s)
      /\ ~s.result
      /\ s.pc \in {"jd_done", "jd_ret", "jr_close", "jr_ret", "ret"}
      /\ s.pc = "ret" => ~s.ret

\* a decode expecting the right width and a wrong height has failed
C5_Witness ==
  \E t \in DOMAIN th :
    /\ th[t].pc = "ret" /\ StartReturned(th[t])
    /\ th[t].w = th[t].cinfo.output_width
    /\ th[t].h # th[t].cinfo.output_height
    /\ ~th[t].ret /\ th[t].err.msg = MismatchMsg

\* C6 as stated: after a successful probe returning (w, h), a decode of the
\* same source expecting (w, h) does not fail the dimension check, and a
\* decode expecting any other pair fails with the dimension-mismatch error
\* and writes nothing.
C6_AsStated ==
  \A t \in DOMAIN th :
    LET s == th[t] IN
    (s.pc = "ret" /\ s.probed) =>
      IF s.w = s.probed_w /\ s.h = s.probed_h
      THEN s.err.msg # MismatchMsg
      ELSE ~s.ret /\ s.err.msg = MismatchMsg /\ NoWrites(s)

\* C6 (amended): after a successful probe returning (w, h), a decode of the
\* same source expecting (w, h) does not fail the dimension check; a decode
\* expecting any other pair fails and writes nothing, with the
\* dimension-mismatch error when jpeg_start_decompress returned and with
\* the codec's error when jpeg_start_decompress left through the bridge.
C6_ProbeDecodeAgreement ==
  \A t \in DOMAIN th :
    LET s == th[t] IN
    (s.pc = "ret" /\ s.probed) =>
      IF s.w = s.probed_w /\ s.h = s.probed_h
      THEN /\ s.err.msg # MismatchMsg
           /\ StartReturned(s) => Has(s.log, "alloc_row")
      ELSE /\ ~s.ret /\ s.err.set /\ NoWrites(s)
           /\ StartReturned(s) => s.err.msg = MismatchMsg
           /\ ~StartReturned(s) =>
                /\ Has(s.log, "longjmp")
                /\ s.log[First(s.log, "jpeg_start_decompress") + 1]
                     \in {"fatal", "warning"}
                /\ s.err.msg = CodecMsg("start")

\* a decode after a probe, expecting another pair, failed the check
C6_Witness ==
  \E t \in DOMAIN th :
    /\ th[t].pc = "ret" /\ th[t].probed
    /\ (th[t].w # th[t].probed_w \/ th[t].h # th[t].probed_h)
    /\ ~th[t].ret /\ th[t].err.msg = MismatchMsg

\* C7: a probe that fails leaves the caller's width and height unchanged;
\* they are written only on the path that returns success.
C7_FailedProbeWritesNothing ==
  \A t \in DOMAIN th :
    LET s == th[t] IN
    Probing(s) =>
      /\ (s.w_out # UNWRITTEN \/ s.h_out # UNWRITTEN \/ Has(s.log, "write_dims")) =>
           /\ s.result
           /\ ~Has(s.log, "longjmp") /\ ~s.err.set
           /\ s.pc = "ret" => s.ret
      /\ (s.pc = "ret" /\ ~s.ret) =>
           (s.w_out = UNWRITTEN /\ s.h_out = UNWRITTEN)
      /\ (s.pc = "ret" /\ s.ret) =>
           (s.w_out = s.stream.image_width /\ s.h_out = s.stream.image_height)

\* a probe that left jpeg_calc_output_dimensions through the bridge has
\* returned failure, the outputs as they were
C7_Witness ==
  \E t \in DOMAIN th :
    /\ th[t].pc = "ret" /\ Probing(th[t]) /\ ~th[t].ret
    /\ Has(th[t].log, "jpeg_calc_output_dimensions")
    /\ Has(th[t].log, "longjmp")
    /\ th[t].w_out = UNWRITTEN /\ th[t].h_out = UNWRITTEN

RowsIn(s, state) == Cardinality({i \in 1..MAX_SAMP_FACTOR : s.rows[i] = state})

\* jpeg_decode has reached its return statement
DecodeOver(s) ==
  Decoding(s) /\ s.pc \in {"jd_ret", "jr_close", "jr_ret", "ret"}
              /\ Has(s.log, "create")

\* C8: every staging row a decode allocated is released exactly once before
\* the decode returns, on every exit path; the cleanup releases no block
\* that was not allocated and never reads past the staging array.
C8_StagingRowsReleased ==
  \A t \in DOMAIN th :
    LET s == th[t] IN
    /\ s.badfree = 0 /\ s.oob = 0
    /\ RowsIn(s, "freed") = Count(s.log, "free_row")
    /\ RowsIn(s, "live") + RowsIn(s, "freed") = Count(s.log, "alloc_row")
    /\ s.cinfo.rec_outbuf_height <= MAX_SAMP_FACTOR
    /\ DecodeOver(s) =>
         /\ RowsIn(s, "live") = 0
         /\ Count(s.log, "free_row") = Count(s.log, "alloc_row")
         /\ Count(s.log, "free_row") + Count(s.log, "free_null")
              = s.cinfo.rec_outbuf_height
         /\ s.buffer_mem = "freed"

\* a decode that left jpeg_read_scanlines through the bridge has returned,
\* its two staging rows released
C8_Witness ==
  \E t \in DOMAIN th :
    /\ DecodeOver(th[t]) /\ th[t].pc = "ret"
    /\ Has(th[t].log, "longjmp")
    /\ Count(th[t].log, "alloc_row") >= 2
    /\ RowsIn(th[t], "freed") = Count(th[t].log, "alloc_row")

\* C9: the value written for an RGB triple (R, G, B) is
\* 0xFF000000 + R * 65536 + G * 256 + B: its high half is 0xFF00 + R and its
\* low half G * 256 + B, so the top byte is 0xFF and the lower bytes are R,
\* G, B; solid red gives 0xFFFF0000.
C9_PackedPixel ==
  pk_out # <<>> =>
    /\ pk_out = <<255 * 256 + pk_in[1], pk_in[2] * 256 + pk_in[3]>>
    /\ pk_out[1] \div 256 = 255
    /\ pk_out[1] % 256 = pk_in[1]
    /\ pk_out[2] \div 256 = pk_in[2]
    /\ pk_out[2] % 256 = pk_in[3]
    /\ pk_in = <<255, 0, 0>> => pk_out = <<65535, 0>>

\* solid red was packed
C9_Witness == pk_in = <<255, 0, 0>> /\ pk_out = <<65535, 0>>

Max(S) == CHOOSE x \in S : \A y \in S : y <= x

\* the entries registered under a name so far, by heap id
RegisteredAs(nm) == {i \in 1..Len(img_heap) : img_heap[i].name = nm}

\* C10: after any sequence of successful register calls the table holds at
\* most one entry per name, get(name) returns the entry of the most recent
\* registration under the name, and every replaced entry was released
\* exactly once (the entry in the table not at all).
C10_LastWriteWins ==
  /\ \A p \in associated_images : p.key \in Names
  /\ \A nm \in Names :
       LET ids == RegisteredAs(nm)
           cur == Lookup(associated_images, nm) IN
       /\ Cardinality({p \in associated_images : p.key = nm}) <= 1
       /\ ids = {} => cur = {}
       /\ ids # {} =>
            \E e \in cur :
              /\ cur = {e}
              /\ e.id = Max(ids)
              /\ img_heap[e.id].frees = 0
              /\ \A i \in ids \ {e.id} : img_heap[i].frees = 1
  /\ \A t \in DOMAIN th :
       LET s == th[t] IN
       (s.pc = "ret" /\ s.op = "add" /\ s.ret) =>
         Lookup(associated_images, s.name) =
           {[id |-> Len(img_heap), w |-> s.stream.image_width,
             h |-> s.stream.image_height,
             filename |-> s.filename, offset |-> s.offset]}

\* a name was registered three times: the table holds the third entry, the
\* first two were released
C10_Witness ==
  \E nm \in Names :
    /\ Cardinality(RegisteredAs(nm)) >= 3
    /\ \E e \in Lookup(associated_images, nm) : e.id = Max(RegisteredAs(nm))
    /\ \A i \in RegisteredAs(nm) \ {Max(RegisteredAs(nm))} : img_heap[i].frees = 1

\* C11: when the probe run by a register call fails, the call returns
\* failure with the probe's error prefixed by the image's name, and from the
\* call to its return the table and the entries are as they were: nothing is
\* inserted, replaced, released or allocated.
C11_FailedRegisterChangesNothing ==
  [][\A t \in DOMAIN th :
       LET s == th[t]
           r == th'[t] IN
       /\ (s.op = "add" /\ ~(s.pc = "add_check" /\ s.success)) =>
            UNCHANGED <<associated_images, img_heap>>
       /\ (s.pc = "add_check" /\ ~s.success) =>
            /\ s.err.set /\ s.err.over = 0 /\ s.err.prefix = ""
            /\ r.pc = "ret" /\ ~r.ret
            /\ r.err = [s.err EXCEPT !.prefix = s.name]
            /\ ~Has(r.log, "insert")
            /\ r.w_out = UNWRITTEN /\ r.h_out = UNWRITTEN]_vars

\* a register call under a name that is in the table has failed: the entry
\* registered before is still there, not released
C11_Witness ==
  \E t \in DOMAIN th :
    /\ th[t].pc = "ret" /\ th[t].op = "add" /\ ~th[t].ret
    /\ th[t].err.set /\ th[t].err.prefix = th[t].name
    /\ \E e \in Lookup(associated_images, th[t].name) :
         img_heap[e.id].frees = 0

\* the events of a full decode
DecodeWork == {"jpeg_start_decompress", "jpeg_read_scanlines", "alloc_row",
               "write_row"}

\* the entry of the table the materialize of frame s was called on
EntryOf(s) ==
  {p \in associated_images :
     /\ p.key = s.name
     /\ p.value.filename = s.filename /\ p.value.offset = s.offset
     /\ p.value.w = s.w /\ p.value.h = s.h}

\* C12: a register call does the header-only probe and no decode work, a
\* get does no codec call at all, and a materialize decodes the file and
\* offset of its entry, expecting the entry's width and height, in RGB;
\* these are the dimensions the probe of the registration found, and the
\* entry and the table are the same from the call to its return.
C12_DecodeOnlyInMaterialize ==
  /\ [](\A t \in DOMAIN th :
          LET s == th[t]
              l == s.log IN
          /\ s.op = "add" =>
               /\ \A j \in 1..Len(l) : l[j] \notin DecodeWork
               /\ s.dest = <<>>
          /\ s.op = "get" =>
               /\ \A j \in 1..Len(l) : l[j] \notin CodecCalls \cup DecodeWork
               /\ ~Has(l, "create") /\ ~Has(l, "fopen")
               /\ s.cinfo = NoCinfo /\ s.dest = <<>>
          /\ s.op = "materialize" =>
               /\ EntryOf(s) # {}
               /\ \A p \in EntryOf(s) : img_heap[p.value.id].frees = 0
               /\ ~s.grayscale
               /\ Len(s.dest) = s.w * s.h
               /\ Has(l, "jpeg_start_decompress") =>
                    s.cinfo.out_color_space = "JCS_RGB"
               /\ s.usef =>
                    /\ s.stream = FileStream(s.filename, s.offset)
                    /\ s.w = s.stream.image_width
                    /\ s.h = s.stream.image_height
               /\ s.err.msg # MismatchMsg)
  /\ [][\A t \in DOMAIN th :
          th[t].op \in {"get", "materialize"} =>
            UNCHANGED <<associated_images, img_heap>>]_vars

\* after a get, a materialize of a registered entry has decoded its rows
\* and returned success
C12_Witness ==
  \E t \in DOMAIN th :
    /\ th[t].pc = "ret" /\ th[t].op = "materialize" /\ th[t].ret
    /\ Count(th[t].log, "write_row") = th[t].h
    /\ th[t].w # th[t].h
    /\ EntryOf(th[t]) # {}

\* the destination a decode of a valid stream fills: element k * w + i is
\* the value of column i of scanline k
Decoded(s) ==
  [j \in 1..(s.w * s.h) |->
     Pixel((j - 1) \div s.w, (j - 1) % s.w, IF s.grayscale THEN 1 ELSE 3)]

\* what a returned call on a valid stream gives its caller
ValidResult(s) ==
  /\ Probing(s) =>
       /\ s.ret /\ s.err = NoErr
       /\ s.w_out = s.stream.image_width /\ s.h_out = s.stream.image_height
  /\ Decoding(s) =>
       IF s.w = s.stream.image_width /\ s.h = s.stream.image_height
       THEN s.ret /\ s.err = NoErr /\ s.dest = Decoded(s)
       ELSE /\ ~s.ret /\ NoWrites(s)
            /\ s.err = MkErr(MismatchMsg, <<s.w, s.h, s.stream.image_width,
                                            s.stream.image_height>>)

\* C13: a probe or decode of a valid source made after a call that failed
\* by a fatal error or an escalated warning returns what the same call
\* returns when nothing failed before it; its session starts with no
\* pending error, jumps nowhere, and frees and reads no staging storage of
\* the failed call.
C13_ErrorIsolation ==
  \A t \in DOMAIN th :
    LET s == th[t] IN
    /\ (s.pc = "ret" /\ s.op # "get" /\ s.stream.at = "none"
           /\ ~EmptyImage(s.stream)
           /\ s.stream.header = JPEG_HEADER_OK /\ Has(s.log, "create")) =>
         ValidResult(s)
    /\ s.after_failure =>
         /\ s.pc \notin {"aborted", "undefined", "stale", "gd_recover", "jd_recover"}
         /\ ~Has(s.log, "longjmp") /\ ~Has(s.log, "capture")
         /\ ~s.jerr.err.set
         /\ s.badfree = 0 /\ s.oob = 0
         /\ Has(s.log, "setjmp") => s.env \in {"gd_recover", "jd_recover"}
         /\ Has(s.log, "alloc_buffer") =>
              \A i \in 1..MAX_SAMP_FACTOR :
                s.buffer[i] # 0 => s.rows[s.buffer[i]] # "none"

\* after a decode that failed having staged rows, a decode of a valid
\* two-row image has returned success
C13_Witness ==
  \E t \in DOMAIN th :
    /\ th[t].after_failure /\ th[t].pc = "ret" /\ Decoding(th[t]) /\ th[t].ret
    /\ th[t].h >= 2
    /\ th[t].dest = Decoded(th[t])
    /\ \E i \in 1..MAX_SAMP_FACTOR : th[t].stage[i] # th[t].stage[1]

\* what a returned file-based call gives its caller, from its own source
OwnResult(s) ==
  /\ s.stream = FileStream(s.filename, s.offset)
  /\ IF s.ret
     THEN /\ s.err = NoErr
          /\ Probing(s) => (s.w_out = s.stream.image_width
                             /\ s.h_out = s.stream.image_height)
          /\ Decoding(s) => s.dest = Decoded(s)
     ELSE /\ s.err.set /\ s.err.over = 0
          /\ s.stream.at # "none"
          /\ Has(s.log, "longjmp")
          /\ s.err = MkErr(CodecMsg(s.stream.at), <<>>)
          /\ s.log[EmitPos(s) + 1] \in {"fatal", "warning"}

\* C14: with probes, decodes and materializations of registered entries
\* running on two threads, each through its own handle, every call returns
\* what its own source gives; a step of a call changes the frame, session,
\* pending error and staging rows of that call alone, an escape lands on
\* the recovery point of the call it happened in, and the table and its
\* entries do not change.
C14_ConcurrentCallsIndependent ==
  /\ [](\A t \in DOMAIN th :
          LET s == th[t] IN
          /\ s.pc \notin {"aborted", "undefined", "stale"}
          /\ s.jerr.err.over = 0 /\ s.badfree = 0 /\ s.oob = 0
          /\ s.jerr.mem = "live" => s.jerr.env
          /\ s.pc = "ret" => OwnResult(s)
          /\ s.op = "materialize" => EntryOf(s) # {})
  /\ [][/\ UNCHANGED <<associated_images, img_heap>>
        /\ \E t \in DOMAIN th : \A u \in DOMAIN th \ {t} : th'[u] = th[u]
        /\ \A t \in DOMAIN th :
             Count(th'[t].log, "longjmp") > Count(th[t].log, "longjmp") =>
               /\ th[t].pc \notin {"idle", "ret"}
               /\ th[t].env \in {"gd_recover", "jd_recover"}
               /\ th'[t].pc = th[t].env]_vars

\* two materializations of the same entry ran together: one has returned
\* its rows while the other, which left through the bridge, is at its
\* recovery point
C14_Witness ==
  \E t, u \in DOMAIN th :
    /\ t # u
    /\ th[t].op = "materialize" /\ th[u].op = "materialize"
    /\ th[t].name = th[u].name
    /\ th[t].pc = "ret" /\ th[t].ret /\ th[t].dest = Decoded(th[t])
    /\ th[u].pc = "jd_recover" /\ th[u].jerr.err.set

\* the libjpeg entry points of a call that read the source
SourceWork == {"jpeg_read_header", "jpeg_calc_output_dimensions",
               "jpeg_start_decompress", "jpeg_read_scanlines"}

\* event a is in the log and every event of the set B in the log comes
\* after the first a
Precedes(l, a, B) ==
  \A j \in 1..Len(l) : l[j] \in B => (Has(l, a) /\ First(l, a) < j)

\* C15: in every probe and decode the session is created, then the
\* recovery point is established, then the bridge is installed and
\* jpeg_create_decompress called, then the source is bound, then the other
\* libjpeg entry points are called; no libjpeg entry point runs without
\* the bridge installed (libjpeg's own error_exit is never reached), and an
\* escape lands on the recovery point of the call it happened in, the
\* session and the bridge of the call still allocated.
C15_StepOrder ==
  \A t \in DOMAIN th :
    LET s == th[t]
        l == s.log IN
    /\ Precedes(l, "create", {"setjmp"})
    /\ Precedes(l, "setjmp", {"install"})
    /\ Precedes(l, "install", CodecCalls \cup {"longjmp", "capture"})
    /\ Precedes(l, "jpeg_create_decompress", {"stdio_src", "mem_src"})
    /\ Precedes(l, IF s.usef THEN "stdio_src" ELSE "mem_src", SourceWork)
    /\ Count(l, "setjmp") <= 1 /\ Count(l, "install") <= 1
    /\ ~Has(l, "exit") /\ s.pc \notin {"aborted", "undefined", "stale"}
    /\ \A j \in 1..Len(l) :
         l[j] \in CodecCalls => \A i \in 1..j : l[i] # "destroy"
    /\ \A j \in 1..Len(l) :
         l[j] = "longjmp" =>
           /\ \A i \in 1..j : l[i] \notin {"return", "destroy"}
           /\ s.env = (IF Probing(s) THEN "gd_recover" ELSE "jd_recover")
           /\ j = Len(l) =>
                /\ s.pc = s.env
                /\ s.cinfo.mem = "live" /\ s.jerr.mem = "live" /\ s.jerr.env
                /\ Decoding(s) => s.buffer_mem = "live"

\* a probe whose jpeg_create_decompress raised a fatal error stands at its
\* recovery point
C15_Witness ==
  \E t \in DOMAIN th :
    /\ th[t].pc = "gd_recover" /\ Probing(th[t])
    /\ th[t].stream.at = "create"
    /\ th[t].log = <<"create", "setjmp", "install", "jpeg_create_decompress",
                     "fatal", "capture", "longjmp">>

\* C16 as stated: when the recovery point is established, begin (the
\* installation of the bridge and jpeg_create_decompress) has completed.
C16_AsStated ==
  \A t \in DOMAIN th :
    LET l == th[t].log IN
    Has(l, "setjmp") =>
      /\ Has(l, "install") /\ First(l, "install") < First(l, "setjmp")
      /\ Has(l, "jpeg_create_decompress")
      /\ First(l, "jpeg_create_decompress") < First(l, "setjmp")

\* C16 (amended): in every probe and decode the creation of the session
\* (in a decode, with the allocation of the staging array) is the last step
\* before the recovery point is established and begin is the first step
\* after it: when the recovery point is established the session exists, no
\* bridge is installed and no libjpeg entry point has been called.
C16_CreateBeforeRecoveryPoint ==
  \A t \in DOMAIN th :
    LET s == th[t]
        l == s.log
        p == First(l, "setjmp") IN
    p > 0 =>
      /\ p > (IF Probing(s) THEN 1 ELSE 2)
      /\ Probing(s) => l[p - 1] = "create"
      /\ Decoding(s) => (l[p - 1] = "alloc_buffer" /\ l[p - 2] = "create")
      /\ \A j \in 1..p : l[j] \notin CodecCalls \cup {"install"}
      /\ Len(l) = p =>
           /\ s.cinfo.mem = "live" /\ ~s.cinfo.err /\ ~s.cinfo.created
           /\ s.jerr = NoJerr
           /\ s.pc \in {"gd_init", "jd_init"}
      /\ Len(l) > p => l[p + 1] = "install"
      /\ Len(l) > p + 1 => l[p + 2] = "jpeg_create_decompress"

\* a decode has established its recovery point and then completed begin
C16_Witness ==
  \E t \in DOMAIN th :
    /\ th[t].pc = "jd_src"
    /\ th[t].log = <<"create", "alloc_buffer", "setjmp", "install",
                     "jpeg_create_decompress">>
    /\ th[t].cinfo.created /\ th[t].jerr.env

\* C17: every decode returns, with all rows produced or with its first
\* error; each jpeg_read_scanlines call of the loop either delivers at least
\* one row, moving output_scanline towards output_height, or leaves through
\* the bridge, whatever the batch height.
C17_DecodeReturns ==
  /\ [][\A t \in DOMAIN th :
          LET s == th[t]
              r == th'[t] IN
          (s.pc = "jd_loop" /\ Count(r.log, "jpeg_read_scanlines")
                                 > Count(s.log, "jpeg_read_scanlines")) =>
            \/ r.pc = "jd_recover" /\ r.log[Len(r.log)] = "longjmp"
            \/ /\ r.rows_read >= 1
               /\ r.rows_read <= s.cinfo.rec_outbuf_height
               /\ r.cinfo.output_scanline = s.cinfo.output_scanline + r.rows_read
               /\ r.cinfo.output_scanline <= r.cinfo.output_height
               /\ r.pc = "jd_copy"]_vars
  /\ \A t \in Callers :
       (Decoding(th[t]) /\ th[t].pc # "ret") ~>
         (/\ Decoding(th[t]) /\ th[t].pc = "ret"
          /\ IF th[t].ret
             THEN /\ th[t].cinfo.output_scanline = th[t].cinfo.output_height
                  /\ Count(th[t].log, "write_row") = th[t].h
             ELSE th[t].err.set)

\* a decode whose loop read its rows in more than one batch has returned
\* success
C17_Witness ==
  \E t \in DOMAIN th :
    /\ Decoding(th[t]) /\ th[t].pc = "ret" /\ th[t].ret
    /\ Count(th[t].log, "jpeg_read_scanlines") >= 2
    /\ th[t].cinfo.rec_outbuf_height >= 2
    /\ th[t].cinfo.output_scanline = th[t].cinfo.output_height

\* the error of the call was set by the probe or the decode itself (the
\* header test or the dimension test), not taken from the bridge
FormatError(s) ==
  /\ s.err.set
  /\ s.err.msg \in {"Couldn't read JPEG header", MismatchMsg}
  /\ Has(s.log, "set_err") /\ ~Has(s.log, "propagate")

\* C18 as stated: a probe or a decode of a stream that declares zero width
\* or zero height returns a FormatError.
C18_AsStated ==
  \A t \in DOMAIN th :
    LET s == th[t] IN
    (s.pc = "ret" /\ EmptyImage(s.stream) /\ Has(s.log, "jpeg_read_header")) =>
      (~s.ret /\ FormatError(s))

\* C18 (amended): on a stream that declares zero width or zero height
\* jpeg_read_header raises a fatal error, which the bridge captures, and
\* the probe or decode returns failure with that error of the codec, having
\* computed no dimensions, started no decompression, allocated no row and
\* written nothing; the row loop is entered only with a positive width,
\* height and batch height.
C18_EmptyImageFails ==
  \A t \in DOMAIN th :
    LET s == th[t]
        l == s.log
        p == First(l, "jpeg_read_header") IN
    /\ (EmptyImage(s.stream) /\ p > 0) =>
         /\ Len(l) >= p + 3
         /\ l[p + 1] = "fatal" /\ l[p + 2] = "capture" /\ l[p + 3] = "longjmp"
         /\ \A j \in (p + 1)..Len(l) :
              l[j] \notin CodecWork \cup {"write_row", "write_dims",
                                           "alloc_row", "set_err"}
         /\ s.w_out = UNWRITTEN /\ s.h_out = UNWRITTEN /\ NoWrites(s)
         /\ s.pc = "ret" =>
              /\ ~s.ret
              /\ s.err = MkErr("JERR_EMPTY_IMAGE", <<>>)
              /\ Count(l, "propagate") = 1
    /\ s.pc \in {"jd_loop", "jd_copy"} =>
         /\ s.cinfo.output_width > 0 /\ s.cinfo.output_height > 0
         /\ s.cinfo.rec_outbuf_height > 0

\* a decode of a stream declaring zero width has returned the codec's
\* error
C18_Witness ==
  \E t \in DOMAIN th :
    /\ th[t].pc = "ret" /\ Decoding(th[t]) /\ ~th[t].ret
    /\ th[t].stream.image_width = 0 /\ th[t].stream.image_height > 0
    /\ th[t].err.msg = "JERR_EMPTY_IMAGE"
    /\ Has(th[t].log, "propagate")

\* C19: a decode writes row k of the image to the destination elements
\* k * w .. k * w + w - 1, rows in order, each element at most once and on
\* success every one of the w * h elements exactly once (a grayscale sample
\* as it is, one byte); no decode, failed or not, writes an element at
\* w * h or beyond; the staging row copied is always one the last
\* jpeg_read_scanlines call filled.
C19_RowsWrittenOnce ==
  \A t \in DOMAIN th :
    LET s == th[t]
        n == Count(s.log, "write_row") IN
    Decoding(s) =>
      /\ s.oob = 0
      /\ Len(s.dest) = s.w * s.h /\ Len(s.wcount) = s.w * s.h
      /\ s.dpos = n * s.w
      /\ s.dpos <= s.w * s.h
      /\ \A j \in 1..Len(s.dest) :
           IF j - 1 < s.dpos
           THEN /\ s.wcount[j] = 1
                /\ s.dest[j] = Decoded(s)[j]
                /\ s.grayscale =>
                     /\ s.dest[j][1] = 0
                     /\ s.dest[j][2] = Sample((j - 1) \div s.w, (j - 1) % s.w, 0, 1)
                     /\ s.dest[j][2] \in 0..255
           ELSE s.wcount[j] = 0 /\ s.dest[j] = Unwritten
      /\ s.pc = "jd_copy" =>
           /\ s.rows_read > 0
           /\ s.cur_buffer + s.rows_read <= s.cinfo.rec_outbuf_height
           /\ s.cur_buffer + s.rows_read <= MAX_SAMP_FACTOR
           /\ s.stage[s.cur_buffer + 1] = s.cinfo.output_scanline - s.rows_read
           /\ s.stage[s.cur_buffer + 1] = n
           /\ s.rows[s.buffer[s.cur_buffer + 1]] = "live"
      /\ (s.pc = "ret" /\ s.ret) =>
           /\ n = s.h /\ s.dpos = s.w * s.h
           /\ s.dest = Decoded(s)
           /\ \A j \in 1..Len(s.wcount) : s.wcount[j] = 1

\* a grayscale decode of an image of two rows and two columns, read in one
\* batch of two rows, has returned success
C19_Witness ==
  \E t \in DOMAIN th :
    /\ th[t].pc = "ret" /\ th[t].ret /\ th[t].grayscale
    /\ th[t].w >= 2 /\ th[t].h >= 2
    /\ Count(th[t].log, "jpeg_read_scanlines") = 1
    /\ Count(th[t].log, "write_row") = th[t].h
    /\ th[t].dest[th[t].w + 1] = <<0, Sample(1, 0, 0, 1)>>

FileCall(s) == s.op \in {"read_dimensions", "read", "add", "materialize"}

\* _openslide_jpeg_read_dimensions or _openslide_jpeg_read has returned
FileCallOver(s) == s.pc \in {"rd_ret", "jr_ret", "add_check", "ret"}

\* C20: a file-based probe or decode closes the handle it opened exactly
\* once before it returns, on the seek-failure path, after a failed session
\* and after success; when the open or the seek fails no session is created
\* and the destination and the dimension outputs are untouched; fseeko is
\* called exactly when the offset is not zero; the session lives only while
\* the handle is open.
C20_FileClosedOnce ==
  \A t \in DOMAIN th :
    LET s == th[t]
        l == s.log
        opened == Has(l, "fopen")
        seek_failed == opened /\ seek_fails(s) /\ Has(l, "fseeko") IN
    /\ ~FileCall(s) => (~opened /\ ~Has(l, "fclose") /\ s.file = "none")
    /\ FileCall(s) =>
         /\ Count(l, "fopen") + Count(l, "fopen_failed") <= 1
         /\ Count(l, "fclose") <= Count(l, "fopen")
         /\ s.file \in {"none", "open", "closed"}
         /\ s.file = "open" <=> (opened /\ ~Has(l, "fclose"))
         /\ s.file = "closed" <=> Count(l, "fclose") = 1
         /\ FileCallOver(s) =>
              /\ opened <=> s.file = "closed"
              /\ opened <=> FileOpens(s.filename)
              /\ opened => (Has(l, "fseeko") <=> s.offset # 0)
         /\ Has(l, "fseeko") => (opened /\ s.offset # 0)
         /\ Count(l, "fseeko") <= 1
         /\ Has(l, "create") =>
              /\ opened /\ First(l, "fopen") < First(l, "create")
              /\ ~seek_fails(s)
              /\ s.offset # 0 => (Has(l, "fseeko")
                                   /\ First(l, "fseeko") < First(l, "create"))
         /\ \A j \in 1..Len(l) :
              l[j] = "fclose" =>
                \A i \in 1..j : l[i] = "create" => (Has(l, "destroy")
                                                    /\ First(l, "destroy") < j)
         /\ (Has(l, "fopen_failed") \/ seek_failed) =>
              /\ ~Has(l, "create") /\ s.cinfo = NoCinfo /\ s.jerr = NoJerr
              /\ NoWrites(s)
              /\ s.w_out = UNWRITTEN /\ s.h_out = UNWRITTEN
              /\ s.err.set /\ s.err.over = 0
              /\ s.err.msg = (IF seek_failed THEN "Cannot seek to offset"
                                              ELSE "Couldn't open")
              /\ s.pc = "ret" => ~s.ret

\* a file-based decode whose seek failed has returned: the handle is
\* closed, no session was created and the destination is as it was
C20_Witness ==
  \E t \in DOMAIN th :
    /\ th[t].pc = "ret" /\ th[t].op = "read" /\ ~th[t].ret
    /\ th[t].log = <<"fopen", "fseeko", "set_err", "fclose", "return">>
    /\ th[t].file = "closed"
    /\ th[t].err.msg = "Cannot seek to offset"
    /\ NoWrites(th[t])

=============================================================================
